---- MODULE Spec2Model ----
(***************************************************************************)
(* Task Tracker CLI (src/task-cli.py): the Task record, the TaskManager    *)
(* store with its JSON backing file, and the command dispatch of main().   *)
(*                                                                         *)
(* The backing file is modelled by the JSON document its text denotes:     *)
(*   kind = "absent"    no tasks.json                                      *)
(*   kind = "invalid"   text json.load rejects (JSONDecodeError); this is  *)
(*                      also what a file opened with 'w' (truncated) and   *)
(*                      only partly written holds                          *)
(*   kind = "nonarray"  valid JSON whose top level is a number             *)
(*   kind = "array"     a JSON array of objects, `items`; an object is the *)
(*                      sequence of its members [k |-> key, v |-> value]   *)
(* A Python value the program returns is a record [t |-> type, n |-> Int]. *)
(* A method is an operator from the manager's state (self.tasks, the file) *)
(* and its inputs to a record [tasks, file, ret, raised, out]: the state   *)
(* after the call, the value returned, the exception that escaped it ("" = *)
(* none) and the lines it printed.                                         *)
(***************************************************************************)
EXTENDS Integers, Sequences, FiniteSets, TLC

\* Bounds of the model: the tasks a store holds, the ids add_task assigns,
\* and the I/O failures of a behaviour.
MaxLen == 4
MaxId == 6
MaxFaults == 1

Descriptions == {"a"}
NewDescriptions == {"a", "b"}
Times == {1}
MarkStatuses == {"in-progress", "done"}
ListFilters == {"", "todo", "done"}
TaskIds == 1..MaxId
ReadIO == {"ok", "fail", "mkdir"}
WriteIO == {"ok", "open", "write"}

\* file         the backing file tasks.json
\* tasks        self.tasks of the manager
\* constructed  a manager exists (its constructor returned)
\* faults       the I/O failures so far
\* op, ret, raised, out   the last call: its name, the value it returned, the
\*              exception that escaped it and the lines it printed
\* added        history: the ids add_task has assigned so far
VARIABLES file, tasks, constructed, faults, op, ret, raised, out, added

vars == <<file, tasks, constructed, faults, op, ret, raised, out, added>>

\* ---------------------------------------------------------------- values

None == [t |-> "None", n |-> 0]
True == [t |-> "bool", n |-> 1]
False == [t |-> "bool", n |-> 0]
EmptyList == [t |-> "list", n |-> 0]
PyInt(k) == [t |-> "int", n |-> k]

JInt(k) == [t |-> "int", n |-> k, s |-> ""]
JStr(x) == [t |-> "str", n |-> 0, s |-> x]

Absent == [kind |-> "absent", items |-> <<>>]
Invalid == [kind |-> "invalid", items |-> <<>>]
NonArray == [kind |-> "nonarray", items |-> <<>>]
json_dump(dicts) == [kind |-> "array", items |-> dicts]

ErrorAccessingFile == "Error accessing file"

\* datetime.now().strftime("%d/%m/%Y %H:%M:%S") at clock reading t
strftime(t) == IF t = 1 THEN "01/02/2025 10:00:01" ELSE "01/02/2025 10:00:02"

\* ------------------------------------------------------------------ Task

Task(id, description, status, createdAt, updatedAt) ==
  [id |-> id, description |-> description, status |-> status,
   createdAt |-> createdAt, updatedAt |-> updatedAt]

to_dict(task) ==
  << [k |-> "id", v |-> JInt(task.id)],
     [k |-> "description", v |-> JStr(task.description)],
     [k |-> "status", v |-> JStr(task.status)],
     [k |-> "createdAt", v |-> JStr(task.createdAt)],
     [k |-> "updatedAt", v |-> JStr(task.updatedAt)] >>

HasKey(data, key) == \E i \in 1..Len(data) : data[i].k = key

\* data[key]
GetItem(data, key) == data[CHOOSE i \in 1..Len(data) : data[i].k = key].v

TaskKeys == {"id", "description", "status", "createdAt", "updatedAt"}

\* from_dict raises KeyError on a dict without one of the five keys
from_dict_raises(data) == \E key \in TaskKeys : ~HasKey(data, key)

\* from_dict with the description and status keys exchanged
from_dict_swapped(data) ==
  Task(GetItem(data, "id").n,
       GetItem(data, "status").s,
       GetItem(data, "description").s,
       GetItem(data, "createdAt").s,
       GetItem(data, "updatedAt").s)

from_dict(data) ==
  Task(GetItem(data, "id").n,
       GetItem(data, "description").s,
       GetItem(data, "status").s,
       GetItem(data, "createdAt").s,
       GetItem(data, "updatedAt").s)

\* ----------------------------------------------------------- TaskManager

Ids(ts) == {ts[i].id : i \in 1..Len(ts)}

Max(S) == CHOOSE m \in S : \A x \in S : x <= m

\* [task.to_dict() for task in self.tasks]
Dicts(ts) == [i \in 1..Len(ts) |-> to_dict(ts[i])]

\* rio = "fail": open(..., 'r') raises IOError
load_tasks(f, rio) ==
  IF f.kind = "absent" THEN [tasks |-> <<>>, raised |-> "", out |-> <<>>]
  ELSE IF rio = "fail"
    THEN [tasks |-> <<>>, raised |-> "", out |-> <<ErrorAccessingFile>>]
  ELSE IF f.kind = "invalid"
    THEN [tasks |-> <<>>, raised |-> "", out |-> <<>>]
  ELSE IF f.kind = "nonarray"
    THEN [tasks |-> <<>>, raised |-> "TypeError", out |-> <<>>]
  ELSE IF \E i \in 1..Len(f.items) : from_dict_raises(f.items[i])
    THEN [tasks |-> <<>>, raised |-> "KeyError", out |-> <<>>]
  ELSE [tasks |-> [i \in 1..Len(f.items) |-> from_dict(f.items[i])],
        raised |-> "", out |-> <<>>]

\* rio = "mkdir": os.makedirs raises OSError
TaskManager(f, rio) ==
  IF rio = "mkdir"
    THEN [tasks |-> <<>>, raised |-> "OSError", out |-> <<>>]
    ELSE load_tasks(f, rio)

\* wio = "open": open(..., 'w') raises IOError, the file is as it was;
\* wio = "write": the file is truncated by open, then a write raises IOError
save_tasks(ts, f, wio) ==
  IF wio = "ok"
    THEN [file |-> json_dump(Dicts(ts)), ret |-> None, out |-> <<>>]
  ELSE IF wio = "open"
    THEN [file |-> f, ret |-> EmptyList, out |-> <<ErrorAccessingFile>>]
  ELSE [file |-> Invalid, ret |-> EmptyList, out |-> <<ErrorAccessingFile>>]

\* get_next_id counting the tasks instead of taking the largest id
get_next_id_count(ts) == Len(ts) + 1

\* get_next_id without the + 1
get_next_id_max(ts) == Max(Ids(ts) \cup {0})

\* get_next_id filling the first gap
get_next_id_gap(ts) == CHOOSE n \in 1..(Len(ts) + 1) :
  /\ n \notin Ids(ts)
  /\ \A k \in 1..(n - 1) : k \in Ids(ts)

get_next_id(ts) == Max(Ids(ts) \cup {0}) + 1

\* A call self.get_next_id(*args): the method takes no argument but self
call_get_next_id(ts, args) ==
  IF Len(args) # 0
    THEN [raised |-> "TypeError", ret |-> None]
    ELSE [raised |-> "", ret |-> PyInt(get_next_id(ts))]

\* The position in ts of the task get_task_by_id returns, 0 for None
get_task_by_id(ts, task_id) ==
  IF \E i \in 1..Len(ts) : ts[i].id = task_id
    THEN CHOOSE i \in 1..Len(ts) :
           /\ ts[i].id = task_id
           /\ \A j \in 1..(i - 1) : ts[j].id # task_id
    ELSE 0

\* self.tasks.remove(task), task the object at position i
\* remove taking the last task instead of the one found
Remove_last(ts, i) == SubSeq(ts, 1, Len(ts) - 1)

Remove(ts, i) == [j \in 1..(Len(ts) - 1) |-> IF j < i THEN ts[j] ELSE ts[j + 1]]

add_task(ts, f, description, now, wio) ==
  LET task == Task(get_next_id(ts), description, "todo",
                   strftime(now), strftime(now))
      appended == Append(ts, task)
      saved == save_tasks(appended, f, wio)
  IN [tasks |-> appended, file |-> saved.file, ret |-> PyInt(task.id),
      raised |-> "", out |-> saved.out]

\* Line 137 calls get_next_id with task_id.  Were an int to come back, line 140
\* would set an attribute of an int, which raises AttributeError.
update_task(ts, f, task_id, description) ==
  LET task == call_get_next_id(ts, <<task_id>>)
  IN IF task.raised # ""
       THEN [tasks |-> ts, file |-> f, ret |-> None,
             raised |-> task.raised, out |-> <<>>]
       ELSE [tasks |-> ts, file |-> f, ret |-> None,
             raised |-> "AttributeError", out |-> <<>>]

delete_task(ts, f, task_id, wio) ==
  LET i == get_task_by_id(ts, task_id)
      removed == Remove(ts, i)
      saved == save_tasks(removed, f, wio)
  IN IF i # 0
       THEN [tasks |-> removed, file |-> saved.file, ret |-> True,
             raised |-> "", out |-> saved.out]
       ELSE [tasks |-> ts, file |-> f, ret |-> False,
             raised |-> "", out |-> <<>>]

\* Line 164 calls get_next_id with task_id, as update_task does.
mark_task(ts, f, task_id, status) ==
  LET task == call_get_next_id(ts, <<task_id>>)
  IN IF task.raised # ""
       THEN [tasks |-> ts, file |-> f, ret |-> None,
             raised |-> task.raised, out |-> <<>>]
       ELSE [tasks |-> ts, file |-> f, ret |-> None,
             raised |-> "AttributeError", out |-> <<>>]

\* The positions in ts of the tasks list_tasks returns ("" is status=None)
list_tasks(ts, status) ==
  IF status # ""
    THEN {i \in 1..Len(ts) : ts[i].status = status}
    ELSE 1..Len(ts)

\* ------------------------------------------------------------------ main

\* print_tasks(tasks), rows the positions of the tasks given
print_tasks(rows) == IF rows = {} THEN <<"No tasks found">> ELSE <<"table">>

\* print_tasks([manager.get_task_by_id(id)]): a list holding None is not empty,
\* and reading None.id raises AttributeError
print_task_by_id(ts, task_id) ==
  IF get_task_by_id(ts, task_id) = 0
    THEN [raised |-> "AttributeError", out |-> <<>>]
    ELSE [raised |-> "", out |-> print_tasks({get_task_by_id(ts, task_id)})]

\* What a branch of main prints after the manager's method returned r
report(command, r, task_id, status) ==
  LET shown == print_task_by_id(r.tasks, task_id)
      found(message) ==
        IF r.ret.n # 0
          THEN [raised |-> shown.raised, out |-> <<message>> \o shown.out]
          ELSE [raised |-> "", out |-> <<"Task not found">>]
  IN CASE command = "add" ->
            LET row == print_task_by_id(r.tasks, r.ret.n)
            IN [raised |-> row.raised,
                out |-> <<"Task added successfully">> \o row.out]
       [] command = "update" -> found("Task updated successfully")
       [] command = "delete" ->
            IF r.ret.n # 0
              THEN [raised |-> "", out |-> <<"Task deleted successfully">>]
              ELSE [raised |-> "", out |-> <<"Task not found">>]
       [] command = "mark-in-progress" -> found("Task marked as in progress")
       [] command = "mark-done" -> found("Task marked as done")
       [] OTHER ->
            [raised |-> "", out |-> print_tasks(list_tasks(r.tasks, status))]

\* One run of the program on the command line.  The manager is constructed
\* outside the try (line 247), so what its constructor raises escapes main.
main(f, command, task_id, description, status, now, rio, wio) ==
  LET m == TaskManager(f, rio)
      r == CASE command = "add" -> add_task(m.tasks, f, description, now, wio)
             [] command = "update" ->
                  update_task(m.tasks, f, task_id, description)
             [] command = "delete" -> delete_task(m.tasks, f, task_id, wio)
             [] command = "mark-in-progress" ->
                  mark_task(m.tasks, f, task_id, "in-progress")
             [] command = "mark-done" ->
                  mark_task(m.tasks, f, task_id, "done")
             [] OTHER ->
                  [tasks |-> m.tasks, file |-> f, ret |-> None,
                   raised |-> "", out |-> <<>>]
      said == report(command, r, task_id, status)
  IN IF m.raised # ""
       THEN [tasks |-> <<>>, file |-> f, ret |-> None,
             raised |-> m.raised, out |-> m.out]
     ELSE IF r.raised # ""
       THEN [tasks |-> r.tasks, file |-> r.file, ret |-> PyInt(1),
             raised |-> "", out |-> m.out \o r.out \o <<"An error occurred">>]
     ELSE IF said.raised # ""
       THEN [tasks |-> r.tasks, file |-> r.file, ret |-> PyInt(1),
             raised |-> "",
             out |-> m.out \o r.out \o said.out \o <<"An error occurred">>]
     ELSE [tasks |-> r.tasks, file |-> r.file, ret |-> PyInt(0),
           raised |-> "", out |-> m.out \o r.out \o said.out]

\* --------------------------------------------------------- state machine

InitialFiles ==
  { Absent, Invalid, NonArray, json_dump(<<>>),
    json_dump(<< << [k |-> "id", v |-> JInt(1)],
                    [k |-> "description", v |-> JStr("a")] >> >>) }

Init ==
  /\ file \in InitialFiles
  /\ tasks = <<>>
  /\ constructed = FALSE
  /\ faults = 0
  /\ op = ""
  /\ ret = None
  /\ raised = ""
  /\ out = <<>>
  /\ added = {}

\* The I/O failures a call met: each prints one line, but for os.makedirs
IOFailures(r) ==
  Cardinality({i \in 1..Len(r.out) : r.out[i] = ErrorAccessingFile})
    + (IF r.raised = "OSError" THEN 1 ELSE 0)

\* The manager's state after a method call that returned or raised r and
\* assigned the ids in new
Returns(name, r, new) ==
  /\ faults + IOFailures(r) <= MaxFaults
  /\ faults' = faults + IOFailures(r)
  /\ tasks' = r.tasks
  /\ file' = r.file
  /\ op' = name
  /\ ret' = r.ret
  /\ raised' = r.raised
  /\ out' = r.out
  /\ added' = added \cup new

\* manager = TaskManager(storage_path)
Call_TaskManager(rio) ==
  LET m == TaskManager(file, rio)
  IN /\ Returns("TaskManager",
                [tasks |-> m.tasks, file |-> file, ret |-> None,
                 raised |-> m.raised, out |-> m.out], {})
     /\ constructed' = (m.raised = "")

Call_save_tasks(wio) ==
  LET saved == save_tasks(tasks, file, wio)
  IN /\ constructed
     /\ Returns("save_tasks",
                [tasks |-> tasks, file |-> saved.file, ret |-> saved.ret,
                 raised |-> "", out |-> saved.out], {})
     /\ UNCHANGED constructed

Call_add_task(description, now, wio) ==
  /\ constructed
  /\ Len(tasks) < MaxLen
  /\ get_next_id(tasks) <= MaxId
  /\ Returns("add_task", add_task(tasks, file, description, now, wio),
             {get_next_id(tasks)})
  /\ UNCHANGED constructed

Call_update_task(task_id, description) ==
  /\ constructed
  /\ Returns("update_task", update_task(tasks, file, task_id, description),
             {})
  /\ UNCHANGED constructed

Call_delete_task(task_id, wio) ==
  /\ constructed
  /\ Returns("delete_task", delete_task(tasks, file, task_id, wio), {})
  /\ UNCHANGED constructed

Call_mark_task(task_id, status) ==
  /\ constructed
  /\ Returns("mark_task", mark_task(tasks, file, task_id, status), {})
  /\ UNCHANGED constructed

\* The program run once, in a process of its own: it starts when no other
\* manager holds the store, and its manager is gone when it ends.
Run_main(command, task_id, description, status, now, rio, wio) ==
  LET r == main(file, command, task_id, description, status, now, rio, wio)
      m == TaskManager(file, rio)
  IN /\ ~constructed
     /\ command = "add" =>
          /\ Len(m.tasks) < MaxLen
          /\ get_next_id(m.tasks) <= MaxId
     /\ Returns(command, [r EXCEPT !.tasks = <<>>],
                Ids(r.tasks) \ Ids(m.tasks))
     /\ constructed' = FALSE

\* The arguments argparse gives a command; the others are not read.
Run_add(description, now, rio, wio) ==
  Run_main("add", 0, description, "", now, rio, wio)

Run_update(task_id, description, rio) ==
  Run_main("update", task_id, description, "", 1, rio, "ok")

Run_delete(task_id, rio, wio) ==
  Run_main("delete", task_id, "", "", 1, rio, wio)

Run_mark(command, task_id, rio) ==
  Run_main(command, task_id, "", "", 1, rio, "ok")

Run_list(status, rio) ==
  Run_main("list", 0, "", status, 1, rio, "ok")

\* The process that holds the manager ends.
Exit ==
  /\ constructed
  /\ constructed' = FALSE
  /\ tasks' = <<>>
  /\ op' = "exit"
  /\ ret' = None
  /\ raised' = ""
  /\ out' = <<>>
  /\ UNCHANGED <<file, faults, added>>

Next ==
  \/ Exit
  \/ \E rio \in ReadIO : Call_TaskManager(rio)
  \/ \E wio \in WriteIO : Call_save_tasks(wio)
  \/ \E description \in Descriptions, now \in Times, wio \in WriteIO :
       Call_add_task(description, now, wio)
  \/ \E task_id \in TaskIds, description \in NewDescriptions :
       Call_update_task(task_id, description)
  \/ \E task_id \in TaskIds, wio \in WriteIO : Call_delete_task(task_id, wio)
  \/ \E task_id \in TaskIds, status \in MarkStatuses :
       Call_mark_task(task_id, status)
  \/ \E description \in Descriptions, now \in Times, rio \in ReadIO,
        wio \in WriteIO :
       Run_add(description, now, rio, wio)
  \/ \E task_id \in TaskIds, description \in NewDescriptions,
        rio \in ReadIO :
       Run_update(task_id, description, rio)
  \/ \E task_id \in TaskIds, rio \in ReadIO, wio \in WriteIO :
       Run_delete(task_id, rio, wio)
  \/ \E command \in {"mark-in-progress", "mark-done"}, task_id \in TaskIds,
        rio \in ReadIO :
       Run_mark(command, task_id, rio)
  \/ \E status \in ListFilters, rio \in ReadIO : Run_list(status, rio)

Spec == Init /\ [][Next]_vars

\* ---------------------------------------------------------------- claims

\* C1: for every id present in the store, update(id, newDescription) returns
\* True without raising; afterwards that task has the new description and a
\* refreshed updatedAt, all else is unchanged, and the file holds the
\* serialization of the updated list.
C1_UpdatePresent ==
  [][op' = "update_task" =>
      (\A task_id \in TaskIds, description \in NewDescriptions :
           (task_id \in Ids(tasks) /\ Call_update_task(task_id, description)) =>
             /\ raised' = ""
             /\ ret' = True
             /\ Len(tasks') = Len(tasks)
             /\ \A i \in 1..Len(tasks) :
                  IF tasks[i].id = task_id
                    THEN \E now \in Times :
                           tasks'[i] = [tasks[i] EXCEPT
                                          !.description = description,
                                          !.updatedAt = strftime(now)]
                    ELSE tasks'[i] = tasks[i]
             /\ file' = json_dump(Dicts(tasks')))]_vars

\* The ids of the tasks in the file f, when it loads
FileIds(f) == Ids(load_tasks(f, "ok").tasks)

\* C2: for every id not present, update(id, d) and markStatus(id, s) return
\* False without raising and leave the task list and the file unchanged, and
\* the update / mark-in-progress / mark-done commands print the not-found
\* message and complete normally.
C2_NotFound ==
  [][/\ \A task_id \in TaskIds, description \in NewDescriptions :
          (task_id \notin Ids(tasks)
             /\ Call_update_task(task_id, description)) =>
            (raised' = "" /\ ret' = False /\ UNCHANGED <<tasks, file>>)
     /\ \A task_id \in TaskIds, status \in MarkStatuses :
          (task_id \notin Ids(tasks) /\ Call_mark_task(task_id, status)) =>
            (raised' = "" /\ ret' = False /\ UNCHANGED <<tasks, file>>)
     /\ \A task_id \in TaskIds, description \in NewDescriptions :
          (task_id \notin FileIds(file)
             /\ Run_update(task_id, description, "ok")) =>
            (raised' = "" /\ ret' = PyInt(0) /\ out' = <<"Task not found">>
               /\ file' = file)
     /\ \A command \in {"mark-in-progress", "mark-done"}, task_id \in TaskIds :
          (task_id \notin FileIds(file) /\ Run_mark(command, task_id, "ok")) =>
            (raised' = "" /\ ret' = PyInt(0) /\ out' = <<"Task not found">>
               /\ file' = file)]_vars

\* C3: for every id present and every status, markStatus(id, status) returns
\* success and changes only the status and updatedAt of that task: its id,
\* description, createdAt, the other tasks and the order stay as they were.
C3_MarkPresent ==
  [][op' = "mark_task" =>
      (\A task_id \in TaskIds, status \in MarkStatuses :
           (task_id \in Ids(tasks) /\ Call_mark_task(task_id, status)) =>
             /\ raised' = ""
             /\ ret' = True
             /\ Len(tasks') = Len(tasks)
             /\ \A i \in 1..Len(tasks) :
                  IF tasks[i].id = task_id
                    THEN \E now \in Times :
                           tasks'[i] = [tasks[i] EXCEPT
                                          !.status = status,
                                          !.updatedAt = strftime(now)]
                    ELSE tasks'[i] = tasks[i])]_vars

\* C4 as stated: over add and delete operations from an empty store (no I/O
\* failure), the id an add returns differs from the id of every task added
\* before it, deleted tasks included.
C4_NeverReused ==
  [][op' = "add_task" =>
      (\A description \in Descriptions, now \in Times :
           (faults = 0 /\ Call_add_task(description, now, "ok")) =>
             ret'.n \notin added)]_vars

\* C4 amended: the id an add returns is larger than, so different from, the id
\* of every task in the store at that time, and different from every id added
\* before that is not above all of them; ids of deleted tasks above every
\* remaining id are assigned again.
C4_FreshAmongPresent ==
  [][op' = "add_task" =>
      (\A description \in Descriptions, now \in Times, wio \in WriteIO :
           Call_add_task(description, now, wio) =>
             /\ ret'.t = "int"
             /\ \A id \in Ids(tasks) : ret'.n > id
             /\ \A id \in added :
                  (\E present \in Ids(tasks) : id <= present) => ret'.n # id
             /\ (ret'.n \in added) =>
                  \A present \in Ids(tasks) : present < ret'.n)]_vars

\* An add has just returned an id that a deleted task had before.
C4_Witness ==
  /\ op = "add_task"
  /\ faults = 0
  /\ Len(tasks) >= 2
  /\ Cardinality(added) = ret.n
  /\ added \ Ids(tasks) # {}

UniqueIds(ts) == \A i, j \in 1..Len(ts) : i # j => ts[i].id # ts[j].id

\* The ids of ts in order
IdSeq(ts) == [i \in 1..Len(ts) |-> ts[i].id]

\* C5: in every state reached from an empty store by add, update, delete and
\* markStatus, no two tasks have the same id, every id is a positive integer,
\* and a task keeps its id while it is in the store: a call leaves the ids of
\* the tasks that stay, in their order, as they were.
C5_IdsUniquePositiveStable ==
  /\ [](UniqueIds(tasks) /\ \A i \in 1..Len(tasks) : tasks[i].id >= 1)
  /\ [][(constructed /\ constructed' /\ op' # "TaskManager") =>
          \/ IdSeq(tasks') = IdSeq(tasks)
          \/ /\ Len(tasks') = Len(tasks) + 1
             /\ SubSeq(IdSeq(tasks'), 1, Len(tasks)) = IdSeq(tasks)
          \/ \E i \in 1..Len(tasks) :
               IdSeq(tasks') = [j \in 1..(Len(tasks) - 1) |->
                                  IF j < i THEN tasks[j].id
                                           ELSE tasks[j + 1].id]]_vars

\* Adds and deletes have left a store of several tasks whose ids have a gap.
C5_Witness ==
  /\ constructed
  /\ op = "delete_task"
  /\ ret = True
  /\ Len(tasks) = 3
  /\ IdSeq(tasks) = <<1, 3, 4>>

\* C6: add(description) appends exactly one task at the end, with id
\* 1 + max(existing ids) (1 for an empty store, 6 for ids {1,3,5}), status
\* todo and createdAt = updatedAt, leaves the existing tasks and their order
\* unchanged, returns the new id, and the file its write produced holds the
\* serialization of the list.
C6_AddAppends ==
  [][op' = "add_task" =>
      (\A description \in Descriptions, now \in Times, wio \in WriteIO :
           Call_add_task(description, now, wio) =>
             LET new == tasks'[Len(tasks')]
             IN /\ raised' = ""
                /\ Len(tasks') = Len(tasks) + 1
                /\ SubSeq(tasks', 1, Len(tasks)) = tasks
                /\ new.id = IF tasks = <<>> THEN 1 ELSE Max(Ids(tasks)) + 1
                /\ Ids(tasks) = {1, 3, 5} => new.id = 6
                /\ new.description = description
                /\ new.status = "todo"
                /\ new.createdAt = new.updatedAt
                /\ new.createdAt = strftime(now)
                /\ ret' = PyInt(new.id)
                /\ wio = "ok" =>
                     /\ file'.kind = "array"
                     /\ Len(file'.items) = Len(tasks')
                     /\ \A i \in 1..Len(tasks') :
                          /\ GetItem(file'.items[i], "id") = JInt(tasks'[i].id)
                          /\ GetItem(file'.items[i], "description")
                               = JStr(tasks'[i].description)
                          /\ GetItem(file'.items[i], "status")
                               = JStr(tasks'[i].status)
                          /\ GetItem(file'.items[i], "createdAt")
                               = JStr(tasks'[i].createdAt)
                          /\ GetItem(file'.items[i], "updatedAt")
                               = JStr(tasks'[i].updatedAt))]_vars

\* An add on the store whose ids are {1,3,5} has returned 6 and saved.
C6_Witness ==
  /\ op = "add_task"
  /\ ret = PyInt(6)
  /\ IdSeq(tasks) = <<1, 3, 5, 6>>
  /\ out = <<>>
  /\ file = json_dump(Dicts(tasks))

\* C7: delete(id) on a present id returns True, removes exactly that task,
\* leaves the others unchanged in their order, and the file its write produced
\* holds the result; on an absent id it returns False and the task list and
\* the file are unchanged.
C7_DeleteExactlyOne ==
  [][op' = "delete_task" =>
      (\A task_id \in TaskIds, wio \in WriteIO :
           Call_delete_task(task_id, wio) =>
             /\ raised' = ""
             /\ task_id \in Ids(tasks) =>
                  /\ ret' = True
                  /\ Len(tasks') = Len(tasks) - 1
                  /\ task_id \notin Ids(tasks')
                  /\ \E i \in 1..Len(tasks) :
                       /\ tasks[i].id = task_id
                       /\ \A j \in 1..Len(tasks') :
                            tasks'[j] = IF j < i THEN tasks[j] ELSE tasks[j + 1]
                  /\ wio = "ok" => file' = json_dump(Dicts(tasks'))
             /\ task_id \notin Ids(tasks) =>
                  (ret' = False /\ UNCHANGED <<tasks, file>>))]_vars

\* A delete has removed a task from the middle of the list and saved.
C7_Witness ==
  /\ op = "delete_task"
  /\ ret = True
  /\ out = <<>>
  /\ IdSeq(tasks) = <<1, 3>>
  /\ file = json_dump(Dicts(tasks))

\* The last call wrote the file without an I/O failure.
SaveSucceeded ==
  /\ constructed
  /\ op \in {"add_task", "delete_task", "save_tasks"}
  /\ raised = ""
  /\ out = <<>>
  /\ ret # False

\* C8: after a successful save, a fresh store constructed on the same file
\* holds a list of the same length and order whose ids, descriptions,
\* statuses, createdAt and updatedAt equal those of the saved list.
C8_RoundTrip ==
  [][op' = "TaskManager" =>
      ((SaveSucceeded /\ Call_TaskManager("ok")) =>
           /\ raised' = ""
           /\ Len(tasks') = Len(tasks)
           /\ \A i \in 1..Len(tasks) :
                /\ tasks'[i].id = tasks[i].id
                /\ tasks'[i].description = tasks[i].description
                /\ tasks'[i].status = tasks[i].status
                /\ tasks'[i].createdAt = tasks[i].createdAt
                /\ tasks'[i].updatedAt = tasks[i].updatedAt)]_vars

\* A fresh store has loaded a saved list of several tasks.
C8_Witness ==
  /\ op = "TaskManager"
  /\ constructed
  /\ out = <<>>
  /\ Len(tasks) >= 3
  /\ file = json_dump(Dicts(tasks))

\* The file is absent, is not valid JSON, or is valid JSON that does not
\* match the Task schema.
BadContent(f) ==
  \/ f.kind \in {"absent", "invalid", "nonarray"}
  \/ \E i \in 1..Len(f.items) : from_dict_raises(f.items[i])

\* C9: when the file is absent, holds invalid JSON, or holds valid JSON that
\* does not match the Task schema, constructing the store completes without
\* raising and the store is empty.
C9_LoadNeverFails ==
  [][op' = "TaskManager" =>
      (\A rio \in {"ok", "fail"} :
           (BadContent(file) /\ Call_TaskManager(rio)) =>
             (raised' = "" /\ constructed' /\ tasks' = <<>>))]_vars

\* C10: when writing the file fails during add or delete, the failure is
\* reported without terminating the process, the operation does not report
\* success, the store holds no change that was not persisted, and the file
\* still holds its previous complete contents.
C10_WriteFailureAborts ==
  [][/\ \A description \in Descriptions, now \in Times,
          wio \in {"open", "write"} :
          Call_add_task(description, now, wio) =>
            /\ raised' = ""
            /\ ErrorAccessingFile \in {out'[i] : i \in 1..Len(out')}
            /\ ret'.t # "int"
            /\ tasks' = tasks
            /\ file' = file
     /\ \A task_id \in TaskIds, wio \in {"open", "write"} :
          (task_id \in Ids(tasks) /\ Call_delete_task(task_id, wio)) =>
            /\ raised' = ""
            /\ ErrorAccessingFile \in {out'[i] : i \in 1..Len(out')}
            /\ ret' # True
            /\ tasks' = tasks
            /\ file' = file]_vars

====
